---- MODULE Spec2Model ----
(***************************************************************************)
(* A model of ambulo, a small automatic-differentiation engine.            *)
(*                                                                         *)
(*   node.py     the expression graph: BaseNode / Node / Var / Id / Add /  *)
(*               Sub / Mul / Div, evaluation (eval), forward mode (fwd,    *)
(*               _fwd) and reverse mode (back, di)                         *)
(*   ops.py      Const and the Session-based Id                            *)
(*   session.py  the Session, two maps keyed by node (values, deltas)      *)
(*                                                                         *)
(* Nodes are object identities in Python; here a node is its position in   *)
(* the sequence `nodes`, in order of construction.                         *)
(***************************************************************************)
EXTENDS Integers, Sequences, FiniteSets, TLC

VARIABLES
    nodes,      \* the nodes constructed so far: kind, name, inputs, outputs
    values,     \* Session.values
    deltas,     \* Session.deltas
    last        \* the last call made and what it returned or raised

vars == <<nodes, values, deltas, last>>

(***************************************************************************)
(* Bounds of the model and the numbers of the integration test.            *)
(***************************************************************************)
MaxNodes == 3        \* nodes of a graph under Spec
MaxBackNodes == 4    \* nodes of a graph under SpecBack
MaxDim == 2          \* every dimension of a tensor lies in 1..MaxDim
MaxNum == 5          \* operands, tangents and adjoints of SpecFn lie in -MaxNum..MaxNum

X1Val == 2
X2Val == 5
SeedVal == 1
MaxOrder == 3        \* the highest order of a tensor in tests/test_linalg.py

None == "None"

VarNames == {"x1", "x2"}
NodeNames == {"y"}
EnvNames == VarNames \cup NodeNames

UnaryKinds == {"Id"}
BinaryKinds == {"Add", "Sub", "Mul"}

Bound == [k \in EnvNames |-> IF k = "x1" THEN X1Val ELSE IF k = "x2" THEN X2Val ELSE SeedVal]

\* keyword arguments of eval and back: some of the names, each bound to its number
Envs == {[k \in D |-> Bound[k]] : D \in SUBSET EnvNames}

\* keyword arguments that bind variables only
VarEnvs == {env \in Envs : DOMAIN env \subseteq VarNames}

\* keyword arguments of fwd: a bare number or a (value, tangent) pair per variable
Num(x) == [tag |-> "num", n |-> x, t |-> <<>>]
Tup(s) == [tag |-> "tuple", n |-> 0, t |-> s]
MixChoices(k) == {Num(Bound[k]), Tup(<<Bound[k], 1>>)}
MixEnvs == UNION {{e \in [D -> UNION {MixChoices(k) : k \in D}] :
                      \A k \in D : e[k] \in MixChoices(k)} : D \in SUBSET VarNames}

(***************************************************************************)
(* Helpers on sequences.                                                   *)
(***************************************************************************)
Min(S) == CHOOSE x \in S : \A y \in S : x <= y

RECURSIVE Sum(_)
Sum(s) == IF s = <<>> THEN 0 ELSE Head(s) + Sum(Tail(s))

\* tuple.index: the first position holding x
Index(s, x) == Min({i \in 1..Len(s) : s[i] = x})

Count(s, x) == Cardinality({i \in 1..Len(s) : s[i] = x})

Repeat(x, k) == [i \in 1..k |-> x]

(***************************************************************************)
(* Outcomes of a call: a return value or a raised exception.               *)
(***************************************************************************)
Ok(v) == [ok |-> TRUE, v |-> v]

Raise(e) == [ok |-> FALSE, err |-> e]

\* the first raised exception among the outcomes rs, evaluated in order
FirstError(rs) == Raise(rs[Min({i \in DOMAIN rs : ~rs[i].ok})].err)

AllOk(rs) == \A i \in DOMAIN rs : rs[i].ok

(***************************************************************************)
(* Elementary functions, local derivatives and adjoint distribution.       *)
(***************************************************************************)
IdF(x) == x
IdDf(x, dx) == dx
IdDi(x, vo_bars) == LET v_bar == Sum(vo_bars) IN <<v_bar>>

AddF(x, y) == x + y
AddDf(x, y, dx, dy) == dx + dy
AddDi(x, y, vo_bars) == LET v_bar == Sum(vo_bars) IN <<v_bar, v_bar>>

SubF(x, y) == x - y
\* SubDf with the sign of dy lost
SubDfPlus(x, y, dx, dy) == dx + dy
SubDf(x, y, dx, dy) == dx - dy
SubDi(x, y, vo_bars) == LET v_bar == Sum(vo_bars) IN <<v_bar, -v_bar>>

MulF(x, y) == x * y
MulDf(x, y, dx, dy) == x * dy + dx * y
\* MulDi with the two components exchanged
MulDiSwapped(x, y, vo_bars) == LET v_bar == Sum(vo_bars) IN <<x * v_bar, y * v_bar>>
MulDi(x, y, vo_bars) == LET v_bar == Sum(vo_bars) IN <<y * v_bar, x * v_bar>>

\* Python's float: an IEEE 754 double, here sign * m * 2^e with m a number of
\* Precision bits, the first of them 1.  Zero has sign 0.  Numbers of that size
\* are held as their digits in base Base, from the lowest up.
Precision == 53
Base == 8192
BaseBits == 13

Abs(x) == IF x < 0 THEN -x ELSE x
Sign(x) == IF x < 0 THEN -1 ELSE IF x = 0 THEN 0 ELSE 1

RECURSIVE Pow2(_)
Pow2(n) == IF n = 0 THEN 1 ELSE 2 * Pow2(n - 1)

\* the number of bits of a natural number below Base * Base
RECURSIVE BitLen(_)
BitLen(n) == IF n = 0 THEN 0 ELSE 1 + BitLen(n \div 2)

\* a natural number as its digits, without leading zeros
RECURSIVE DigitsOf(_)
DigitsOf(n) == IF n = 0 THEN <<>> ELSE <<n % Base>> \o DigitsOf(n \div Base)

RECURSIVE Canon(_)
Canon(a) ==
    IF a = <<>> THEN <<>>
    ELSE IF a[Len(a)] = 0 THEN Canon(SubSeq(a, 1, Len(a) - 1)) ELSE a

\* a * k + c for naturals k and c below Base
RECURSIVE MulAdd(_, _, _)
MulAdd(a, k, c) ==
    IF a = <<>> THEN DigitsOf(c)
    ELSE LET t == Head(a) * k + c
         IN <<t % Base>> \o MulAdd(Tail(a), k, t \div Base)

\* a divided by k, for 0 < k < Base and the remainder r of the digits above
RECURSIVE DivMod(_, _, _)
DivMod(a, k, r) ==
    IF a = <<>> THEN [quot |-> <<>>, rem |-> r]
    ELSE LET t == r * Base + a[Len(a)]
             low == DivMod(SubSeq(a, 1, Len(a) - 1), k, t % k)
         IN [quot |-> low.quot \o <<t \div k>>, rem |-> low.rem]

\* a * 2^n
ShiftLeft(a, n) ==
    IF a = <<>> THEN <<>>
    ELSE Repeat(0, n \div BaseBits) \o MulAdd(a, Pow2(n % BaseBits), 0)

\* -1, 0 or 1 as a is below, equal to or above b
RECURSIVE CmpFrom(_, _, _)
CmpFrom(a, b, i) ==
    IF i = 0 THEN 0
    ELSE IF a[i] # b[i] THEN (IF a[i] < b[i] THEN -1 ELSE 1)
    ELSE CmpFrom(a, b, i - 1)

Cmp(a, b) ==
    IF Len(a) # Len(b) THEN (IF Len(a) < Len(b) THEN -1 ELSE 1)
    ELSE CmpFrom(a, b, Len(a))

\* a - b for a >= b
RECURSIVE SubBorrow(_, _, _)
SubBorrow(a, b, borrow) ==
    IF a = <<>> THEN <<>>
    ELSE LET t == Head(a) - (IF b = <<>> THEN 0 ELSE Head(b)) - borrow
         IN <<(t + Base) % Base>>
            \o SubBorrow(Tail(a), IF b = <<>> THEN <<>> ELSE Tail(b), IF t < 0 THEN 1 ELSE 0)

Diff(a, b) == IF Cmp(a, b) >= 0 THEN Canon(SubBorrow(a, b, 0)) ELSE Canon(SubBorrow(b, a, 0))

FloatZero == [s |-> 0, e |-> 0, m |-> <<>>]

\* round to nearest, ties to even: sign * (m + fraction) * 2^e for m of
\* Precision bits and a fraction that is below (-1), at (0) or above (1) one
\* half
RoundFloat(sign, m, e, half) ==
    LET up == half = 1 \/ (half = 0 /\ m[1] % 2 = 1)
        m1 == IF up THEN MulAdd(m, 1, 1) ELSE m
    IN IF m1[Len(m1)] > 1
       THEN [s |-> sign, e |-> e + 1, m |-> DivMod(m1, 2, 0).quot]
       ELSE [s |-> sign, e |-> e, m |-> m1]

\* scale p and q by powers of two until q <= p < 2q; k is the power of two that
\* the first bit of the quotient stands for
RECURSIVE Normalise(_, _, _)
Normalise(p, q, k) ==
    IF p < q THEN Normalise(2 * p, q, k - 1)
    ELSE IF p >= 2 * q THEN Normalise(p, 2 * q, k + 1)
    ELSE [p |-> p, q |-> q, k |-> k]

\* n more digits of the quotient by long division, the highest last
RECURSIVE QuotientDigits(_, _, _)
QuotientDigits(rem, q, n) ==
    IF n = 0 THEN [digits |-> <<>>, rem |-> rem]
    ELSE LET next == QuotientDigits((rem * Base) % q, q, n - 1)
         IN [digits |-> next.digits \o <<(rem * Base) \div q>>, rem |-> next.rem]

\* p / q for integers p and q # 0: the double nearest to the quotient
TrueDiv(p, q) ==
    IF p = 0 THEN FloatZero
    ELSE LET n == Normalise(Abs(p), Abs(q), 0)
             quot == QuotientDigits(n.p - n.q, n.q, (Precision - 1) \div BaseBits)
         IN RoundFloat(Sign(p) * Sign(q), quot.digits \o <<1>>, n.k - (Precision - 1),
                       IF quot.rem = 0 THEN -1 ELSE Sign(2 * quot.rem - n.q))

\* v * f for an integer v and a float f: the double nearest to the product
IntTimesFloat(v, f) ==
    IF v = 0 \/ f.s = 0 THEN FloatZero
    ELSE LET prod == MulAdd(f.m, Abs(v), 0)
             d == BitLen(prod[Len(prod)]) - 1
             cut == DivMod(prod, Pow2(d), 0)
         IN RoundFloat(Sign(v) * f.s, cut.quot, f.e + d,
                       IF cut.rem = 0 THEN -1 ELSE Sign(2 * cut.rem - Pow2(d)))

\* Div: operator.truediv, which raises ZeroDivisionError on a zero divisor
DivF(x, y) ==
    IF y = 0 THEN Raise("ZeroDivisionError") ELSE [ok |-> TRUE, v |-> TrueDiv(x, y)]

\* (dx * y - x * dy) / y ** 2
DivDf(x, y, dx, dy) ==
    IF y * y = 0 THEN Raise("ZeroDivisionError")
    ELSE [ok |-> TRUE, v |-> TrueDiv(dx * y - x * dy, y * y)]

\* [v_bar / y, v_bar * (-x / y ** 2)]
DivDi(x, y, vo_bars) ==
    LET v_bar == Sum(vo_bars)
    IN IF y = 0 THEN Raise("ZeroDivisionError")
       ELSE [ok |-> TRUE,
             v |-> <<TrueDiv(v_bar, y), IntTimesFloat(v_bar, TrueDiv(-x, y * y))>>]

\* Const: f returns self.value whatever the arguments, df returns 0
ConstF(value, args) == value
ConstDf(value, args) == 0

\* self.f(*args), self.df(*vs, *dvs), self.di(*inputs, *vo_bars) by variant
F(kind, xs) ==
    CASE kind = "Id" -> IdF(xs[1])
      [] kind = "Add" -> AddF(xs[1], xs[2])
      [] kind = "Sub" -> SubF(xs[1], xs[2])
      [] kind = "Mul" -> MulF(xs[1], xs[2])

DF(kind, xs, dxs) ==
    CASE kind = "Id" -> IdDf(xs[1], dxs[1])
      [] kind = "Add" -> AddDf(xs[1], xs[2], dxs[1], dxs[2])
      [] kind = "Sub" -> SubDf(xs[1], xs[2], dxs[1], dxs[2])
      [] kind = "Mul" -> MulDf(xs[1], xs[2], dxs[1], dxs[2])

DI(kind, xs, vo_bars) ==
    CASE kind = "Id" -> IdDi(xs[1], vo_bars)
      [] kind = "Add" -> AddDi(xs[1], xs[2], vo_bars)
      [] kind = "Sub" -> SubDi(xs[1], xs[2], vo_bars)
      [] kind = "Mul" -> MulDi(xs[1], xs[2], vo_bars)

(***************************************************************************)
(* Construction.                                                           *)
(***************************************************************************)
NodeIds == 1..Len(nodes)

IsVar(n) == nodes[n].kind = "Var"

\* BaseNode.__init__(name): a leaf with no consumers yet
BaseNodeInit(name) ==
    /\ nodes' = Append(nodes, [kind |-> "Var", name |-> name,
                               inputs |-> <<>>, outputs |-> <<>>])
    /\ last' = [op |-> "init", node |-> Len(nodes) + 1]
    /\ UNCHANGED <<values, deltas>>

\* NodeInit registering self with the first operand only
NodeInitFirstOnly(kind, inputs, name) ==
    /\ LET self == Len(nodes) + 1
           registered == [i \in NodeIds |->
                             [nodes[i] EXCEPT !.outputs =
                                 IF i = inputs[1] THEN Append(@, self) ELSE @]]
       IN /\ nodes' = Append(registered, [kind |-> kind, name |-> name,
                                          inputs |-> inputs, outputs |-> <<>>])
          /\ last' = [op |-> "init", node |-> self]
    /\ UNCHANGED <<values, deltas>>

\* NodeInit storing self in the place of its first operand
NodeInitSelfLoop(kind, inputs, name) ==
    /\ LET self == Len(nodes) + 1
           registered == [i \in NodeIds |->
                             [nodes[i] EXCEPT !.outputs = @ \o Repeat(self, Count(inputs, i))]]
       IN /\ nodes' = Append(registered, [kind |-> kind, name |-> name,
                                          inputs |-> [inputs EXCEPT ![1] = self],
                                          outputs |-> <<>>])
          /\ last' = [op |-> "init", node |-> self]
    /\ UNCHANGED <<values, deltas>>

\* Node.__init__(*inputs, name): append self to the outputs of every input, once
\* per operand position, then store the inputs and start with no consumers
NodeInit(kind, inputs, name) ==
    /\ LET self == Len(nodes) + 1
           registered == [i \in NodeIds |->
                             [nodes[i] EXCEPT !.outputs = @ \o Repeat(self, Count(inputs, i))]]
       IN /\ nodes' = Append(registered, [kind |-> kind, name |-> name,
                                          inputs |-> inputs, outputs |-> <<>>])
          /\ last' = [op |-> "init", node |-> self]
    /\ UNCHANGED <<values, deltas>>

\* The arithmetic operators of BaseNode.  Python looks up a special method by
\* the operator: __add__ for +, __sub__ for -, __mul__ for * and __truediv__
\* for /.
Operators == {"+", "-", "*", "/"}

SpecialMethod(sym) ==
    CASE sym = "+" -> "__add__"
      [] sym = "-" -> "__sub__"
      [] sym = "*" -> "__mul__"
      [] sym = "/" -> "__truediv__"

\* the special methods BaseNode defines, each with the variant it constructs
NodeMethods ==
    [m \in {"__add__", "__sub__", "__mul__", "__div__"} |->
        CASE m = "__add__" -> "Add"
          [] m = "__sub__" -> "Sub"
          [] m = "__mul__" -> "Mul"
          [] m = "__div__" -> "Div"]

\* a <sym> b: the method's node of (a, b), built without a name; TypeError
\* (unsupported operand types) when the class has no method for the operator
Operator(sym, a, b) ==
    IF SpecialMethod(sym) \in DOMAIN NodeMethods
    THEN NodeInit(NodeMethods[SpecialMethod(sym)], <<a, b>>, None)
    ELSE /\ last' = [op |-> "operator", sym |-> sym, a |-> a, b |-> b,
                     out |-> Raise("TypeError")]
         /\ UNCHANGED <<nodes, values, deltas>>

(***************************************************************************)
(* Evaluation: Var.eval and Node.eval.                                     *)
(***************************************************************************)
RECURSIVE Eval(_, _)

\* VarEval falling back to 0 for a name that is not bound
VarEvalDefault(n, env) ==
    IF nodes[n].name \in DOMAIN env
    THEN [ok |-> TRUE, v |-> env[nodes[n].name], fcalls |-> 0]
    ELSE [ok |-> TRUE, v |-> 0, fcalls |-> 0]

\* Var.eval(**env): env[self.name], or VarError when the name is not bound
VarEval(n, env) ==
    IF nodes[n].name \in DOMAIN env
    THEN [ok |-> TRUE, v |-> env[nodes[n].name], fcalls |-> 0]
    ELSE Raise("VarError")

\* NodeEval going on with 0 in the place of an operand that raised
NodeEvalSkip(n, env) ==
    LET ins == nodes[n].inputs
        rs == [i \in 1..Len(ins) |-> Eval(ins[i], env)]
    IN [ok |-> TRUE,
        v |-> F(nodes[n].kind, [i \in 1..Len(ins) |-> IF rs[i].ok THEN rs[i].v ELSE 0]),
        fcalls |-> 1]

\* Node.eval(**env): the operands in order, then self.f; nothing is stored
NodeEval(n, env) ==
    LET ins == nodes[n].inputs
        rs == [i \in 1..Len(ins) |-> Eval(ins[i], env)]
    IN IF ~AllOk(rs) THEN FirstError(rs)
       ELSE [ok |-> TRUE,
             v |-> F(nodes[n].kind, [i \in 1..Len(ins) |-> rs[i].v]),
             fcalls |-> 1 + Sum([i \in 1..Len(ins) |-> rs[i].fcalls])]

Eval(n, env) == IF IsVar(n) THEN VarEval(n, env) ELSE NodeEval(n, env)

\* a call of n.eval(**env); `again` marks the second of two equal calls in a row
\* and `first` keeps what the first of them returned
EvalCall(n, env) ==
    /\ LET again == last.op = "eval" /\ last.node = n /\ last.env = env
       IN last' = [op |-> "eval", node |-> n, env |-> env, out |-> Eval(n, env),
                   again |-> again,
                   first |-> IF again THEN last.out ELSE Raise("none")]
    /\ UNCHANGED <<nodes, values, deltas>>

(***************************************************************************)
(* Forward mode: to_valenv, BaseNode.fwd, Var._fwd and Node._fwd.          *)
(***************************************************************************)
Val(v, dv) == [v |-> v, dv |-> dv]

\* Val.from_tuple(t): only a 2-tuple makes a Val
ValFromTuple(t) ==
    IF Len(t) # 2 THEN Raise("ValueError")
    ELSE [ok |-> TRUE, val |-> Val(t[1], t[2])]

\* ToValenv taking the pair as (tangent, value)
ToValenvSwapped(env) ==
    [ok |-> TRUE,
     env |-> [k \in DOMAIN env |->
                 IF env[k].tag = "tuple" THEN Val(env[k].t[2], env[k].t[1])
                 ELSE Val(env[k].n, 0)]]

\* to_valenv(env): a tuple becomes Val(*t), a bare number v becomes Val(v, 0)
ToValenv(env) ==
    LET conv == [k \in DOMAIN env |->
                    IF env[k].tag = "tuple" THEN ValFromTuple(env[k].t)
                    ELSE [ok |-> TRUE, val |-> Val(env[k].n, 0)]]
    IN IF \E k \in DOMAIN env : ~conv[k].ok THEN Raise("ValueError")
       ELSE [ok |-> TRUE, env |-> [k \in DOMAIN env |-> conv[k].val]]

\* to_env(mixenv): the value component of every binding
ToEnv(mixenv) ==
    [k \in DOMAIN mixenv |->
        IF mixenv[k].tag = "tuple" THEN mixenv[k].t[1] ELSE mixenv[k].n]

RECURSIVE FwdRec(_, _)

\* Var._fwd(**env): env[self.name], or VarError when the name is not bound
VarFwd(n, env) ==
    IF nodes[n].name \in DOMAIN env
    THEN [ok |-> TRUE, val |-> env[nodes[n].name]]
    ELSE Raise("VarError")

\* Node._fwd(**env): the operands' Vals in order, then Val(f(vs), df(vs, dvs))
NodeFwd(n, env) ==
    LET ins == nodes[n].inputs
        vals == [i \in 1..Len(ins) |-> FwdRec(ins[i], env)]
        vs == [i \in 1..Len(ins) |-> vals[i].val.v]
        dvs == [i \in 1..Len(ins) |-> vals[i].val.dv]
    IN IF ~AllOk(vals) THEN FirstError(vals)
       ELSE [ok |-> TRUE, val |-> Val(F(nodes[n].kind, vs), DF(nodes[n].kind, vs, dvs))]

FwdRec(n, env) == IF IsVar(n) THEN VarFwd(n, env) ELSE NodeFwd(n, env)

\* BaseNode.fwd(**env): self._fwd(**to_valenv(env))
Fwd(n, mixenv) ==
    LET valenv == ToValenv(mixenv)
    IN IF ~valenv.ok THEN Raise(valenv.err) ELSE FwdRec(n, valenv.env)

FwdCall(n, mixenv) ==
    /\ last' = [op |-> "fwd", node |-> n, env |-> mixenv, out |-> Fwd(n, mixenv)]
    /\ UNCHANGED <<nodes, values, deltas>>

(***************************************************************************)
(* Reverse mode: Node.back and Id.back.                                    *)
(***************************************************************************)
\* BaseNode.__str__: self.name; str() raises TypeError when that is None
Str(n) ==
    IF nodes[n].name = None THEN Raise("TypeError")
    ELSE [ok |-> TRUE, s |-> nodes[n].name]

RECURSIVE Back(_, _)

\* Node.back(**env): the operand values, then for every entry of self.outputs the
\* component of that consumer's back() at the first position of self among its
\* inputs, then self.di over them
NodeBack(n, env) ==
    LET ins == nodes[n].inputs
        outs == nodes[n].outputs
        inputs == [i \in 1..Len(ins) |-> Eval(ins[i], env)]
        out_indices == [j \in 1..Len(outs) |-> Index(nodes[outs[j]].inputs, n)]
        backs == [j \in 1..Len(outs) |-> Back(outs[j], env)]
        vo_bars == [j \in 1..Len(outs) |-> backs[j].res[out_indices[j]]]
    IN IF ~AllOk(inputs) THEN FirstError(inputs)
       ELSE IF ~AllOk(backs) THEN FirstError(backs)
       ELSE [ok |-> TRUE, vo_bars |-> vo_bars,
             res |-> DI(nodes[n].kind, [i \in 1..Len(ins) |-> inputs[i].v], vo_bars)]

\* Id.back(**env): with no consumers [env[self.name]], the seeded adjoint, or
\* VarError when it is not in env; otherwise Node.back
IdBack(n, env) ==
    IF Len(nodes[n].outputs) = 0
    THEN IF nodes[n].name \in DOMAIN env
         THEN [ok |-> TRUE, vo_bars |-> <<>>, res |-> <<env[nodes[n].name]>>]
         ELSE IF Str(n).ok THEN Raise("VarError") ELSE Raise(Str(n).err)
    ELSE NodeBack(n, env)

\* Var defines no back: the attribute lookup fails
Back(n, env) ==
    IF IsVar(n) THEN Raise("AttributeError")
    ELSE IF nodes[n].kind = "Id" THEN IdBack(n, env)
    ELSE NodeBack(n, env)

BackCall(n, env) ==
    /\ last' = [op |-> "back", node |-> n, env |-> env, out |-> Back(n, env)]
    /\ UNCHANGED <<nodes, values, deltas>>

(***************************************************************************)
(* Specification of the graph: constructions and calls in any order.       *)
(***************************************************************************)
Init ==
    /\ nodes = <<>>
    /\ values = <<>>
    /\ deltas = <<>>
    /\ last = [op |-> "none", node |-> 0]

\* the names of the variables constructed so far
UsedNames == {nodes[n].name : n \in {m \in NodeIds : IsVar(m)}}

\* one construction, while fewer than max nodes exist; every variable has a name
\* of its own
Build(max) ==
    /\ Len(nodes) < max
    /\ \/ \E name \in VarNames \ UsedNames : BaseNodeInit(name)
       \/ \E kind \in UnaryKinds, name \in NodeNames :
             \E i \in NodeIds : NodeInit(kind, <<i>>, name)
       \/ \E kind \in BinaryKinds, name \in NodeNames :
             \E i \in NodeIds, j \in NodeIds : NodeInit(kind, <<i, j>>, name)

Next ==
    \/ Build(MaxNodes)
    \/ \E n \in NodeIds, env \in VarEnvs : EvalCall(n, env)
    \/ \E n \in NodeIds, mixenv \in MixEnvs : FwdCall(n, mixenv)

Spec == Init /\ [][Next]_vars

(***************************************************************************)
(* Specification of reverse mode: constructions and calls of back.         *)
(***************************************************************************)
NextBack ==
    \/ Build(MaxBackNodes)
    \/ \E n \in NodeIds, env \in Envs : BackCall(n, env)

SpecBack == Init /\ [][NextBack]_vars

(***************************************************************************)
(* Specification of the operators: variables and nodes composed with       *)
(* + - * / from the nodes there are.                                       *)
(***************************************************************************)
NextOps ==
    \/ /\ Len(nodes) < MaxNodes
       /\ \E name \in VarNames \ UsedNames : BaseNodeInit(name)
    \/ /\ Len(nodes) < MaxNodes
       /\ \E sym \in Operators, a \in NodeIds, b \in NodeIds : Operator(sym, a, b)

SpecOps == Init /\ [][NextOps]_vars

(***************************************************************************)
(* The Session (session.py) over the nodes of the fixtures of test_node.py *)
(* (x, y and the unnamed mul_xy).                                          *)
(***************************************************************************)
Fixture ==
    << [kind |-> "Var", name |-> "x", inputs |-> <<>>, outputs |-> <<3>>],
       [kind |-> "Var", name |-> "y", inputs |-> <<>>, outputs |-> <<3>>],
       [kind |-> "Mul", name |-> None, inputs |-> <<1, 2>>, outputs |-> <<>>] >>

SessNums == {1, 2}

\* Workspace: a map from some of the nodes to numbers
Workspaces == UNION {[D -> SessNums] : D \in SUBSET (1..Len(Fixture))}

\* BaseNode.__repr__: str(self)
Repr(n) == Str(n)

\* SetValue storing the number in both maps
SetValueBoth(n, x) ==
    /\ values' = [k \in DOMAIN values \cup {n} |-> IF k = n THEN x ELSE values[k]]
    /\ deltas' = [k \in DOMAIN deltas \cup {n} |-> IF k = n THEN x ELSE deltas[k]]
    /\ last' = [op |-> "set_value", node |-> n, arg |-> x, out |-> [ok |-> TRUE]]
    /\ UNCHANGED nodes

\* Session.set_value(node, value): self.values[node] = value
SetValue(n, x) ==
    /\ values' = [k \in DOMAIN values \cup {n} |-> IF k = n THEN x ELSE values[k]]
    /\ last' = [op |-> "set_value", node |-> n, arg |-> x, out |-> [ok |-> TRUE]]
    /\ UNCHANGED <<nodes, deltas>>

\* Session.set_delta(node, delta): self.deltas[node] = delta
SetDelta(n, x) ==
    /\ deltas' = [k \in DOMAIN deltas \cup {n} |-> IF k = n THEN x ELSE deltas[k]]
    /\ last' = [op |-> "set_delta", node |-> n, arg |-> x, out |-> [ok |-> TRUE]]
    /\ UNCHANGED <<nodes, values>>

\* the lookup shared by get_value and get_delta: self.<map>[node], and on KeyError
\* SessionError(f'Cannot find <what> for {repr(node)}'); the message is built
\* first, so a failing repr() is what is raised instead
Lookup(map, what, n) ==
    IF n \in DOMAIN map THEN [ok |-> TRUE, v |-> map[n]]
    ELSE IF ~Repr(n).ok THEN Raise(Repr(n).err)
    ELSE [ok |-> FALSE, err |-> "SessionError",
          msg |-> <<"Cannot find ", what, " for ", Repr(n).s>>]

\* Session.get_value(node)
GetValueOf(n) == Lookup(values, "value", n)

\* Session.get_delta(node)
GetDeltaOf(n) == Lookup(deltas, "delta", n)

GetValue(n) ==
    /\ last' = [op |-> "get_value", node |-> n, out |-> GetValueOf(n),
                before |-> <<values, deltas>>]
    /\ UNCHANGED <<nodes, values, deltas>>

GetDelta(n) ==
    /\ last' = [op |-> "get_delta", node |-> n, out |-> GetDeltaOf(n),
                before |-> <<values, deltas>>]
    /\ UNCHANGED <<nodes, values, deltas>>

\* Session.has_value(node): node in self.values
HasValue(n) ==
    /\ last' = [op |-> "has_value", node |-> n, out |-> [ok |-> TRUE, v |-> n \in DOMAIN values]]
    /\ UNCHANGED <<nodes, values, deltas>>

\* HasDelta looking in the value map
HasDeltaOfValues(n) ==
    /\ last' = [op |-> "has_delta", node |-> n, out |-> [ok |-> TRUE, v |-> n \in DOMAIN values]]
    /\ UNCHANGED <<nodes, values, deltas>>

\* Session.has_delta(node): node in self.deltas
HasDelta(n) ==
    /\ last' = [op |-> "has_delta", node |-> n, out |-> [ok |-> TRUE, v |-> n \in DOMAIN deltas]]
    /\ UNCHANGED <<nodes, values, deltas>>

\* Session.__init__(values, deltas): the given maps, or empty ones
InitSess ==
    /\ nodes = Fixture
    /\ values \in Workspaces
    /\ deltas \in Workspaces
    /\ last = [op |-> "none", node |-> 0]

NextSess ==
    \/ \E n \in NodeIds, x \in SessNums : SetValue(n, x)
    \/ \E n \in NodeIds, x \in SessNums : SetDelta(n, x)
    \/ \E n \in NodeIds : GetValue(n)
    \/ \E n \in NodeIds : GetDelta(n)
    \/ \E n \in NodeIds : HasValue(n)
    \/ \E n \in NodeIds : HasDelta(n)

SpecSess == InitSess /\ [][NextSess]_vars

(***************************************************************************)
(* The elementary functions on their own: f, df and di of every variant    *)
(* applied to numbers of a small range.                                    *)
(***************************************************************************)
Nums == (-MaxNum)..MaxNum

FnKinds == {"Id", "Add", "Sub", "Mul", "Div", "Const"}

\* self.f(x, y) of a node of the given kind (a unary kind takes x; a Const holds x)
ApplyF(kind, x, y) ==
    CASE kind = "Div" -> DivF(x, y)
      [] kind = "Const" -> Ok(ConstF(x, <<y>>))
      [] OTHER -> Ok(F(kind, <<x, y>>))

\* self.df(x, y, dx, dy)
ApplyDf(kind, x, y, dx, dy) ==
    CASE kind = "Div" -> DivDf(x, y, dx, dy)
      [] kind = "Const" -> Ok(ConstDf(x, <<y, dx, dy>>))
      [] OTHER -> Ok(DF(kind, <<x, y>>, <<dx, dy>>))

\* self.di(x, y, *vo_bars)
ApplyDi(kind, x, y, vo_bars) ==
    CASE kind = "Div" -> DivDi(x, y, vo_bars)
      [] OTHER -> Ok(DI(kind, <<x, y>>, vo_bars))

\* the arguments of one application: a kind and four numbers
FnArgs ==
    {[op |-> "args", kind |-> kind, x |-> x, y |-> y, dx |-> dx, dy |-> dy] :
        kind \in FnKinds, x \in Nums, y \in Nums, dx \in Nums, dy \in Nums}

InitFn ==
    /\ nodes = <<>>
    /\ values = <<>>
    /\ deltas = <<>>
    /\ last \in FnArgs

FCall ==
    /\ last.op = "args"
    /\ last' = [op |-> "f", kind |-> last.kind, x |-> last.x, y |-> last.y,
                out |-> ApplyF(last.kind, last.x, last.y)]
    /\ UNCHANGED <<nodes, values, deltas>>

DfCall ==
    /\ last.op = "args"
    /\ last' = [last EXCEPT !.op = "df"]
                  @@ ("out" :> ApplyDf(last.kind, last.x, last.y, last.dx, last.dy))
    /\ UNCHANGED <<nodes, values, deltas>>

\* di with one consumer, whose adjoint is the number drawn as dx
DiCall ==
    /\ last.op = "args"
    /\ last.kind # "Const"
    /\ last' = [op |-> "di", kind |-> last.kind, x |-> last.x, y |-> last.y,
                dx |-> last.dx, out |-> ApplyDi(last.kind, last.x, last.y, <<last.dx>>)]
    /\ UNCHANGED <<nodes, values, deltas>>

NextFn == FCall \/ DfCall \/ DiCall

SpecFn == InitFn /\ [][NextFn]_vars

(***************************************************************************)
(* Tensors (linalg.py) and the sequence helpers they use (utils.py).  A    *)
(* nested sequence is a number, [num |-> n], or a list or tuple of nested  *)
(* sequences, [seq |-> <<...>>]; dimensions and positions are Python's,    *)
(* counted from 0.                                                         *)
(***************************************************************************)
Leaf(n) == [num |-> n]
List(items) == [seq |-> items]

\* isinstance(x, (list, tuple))
IsSeq(x) == "seq" \in DOMAIN x

Leaves(lst) == [i \in 1..Len(lst) |-> Leaf(lst[i])]
Numbers(items) == [i \in 1..Len(items) |-> items[i].num]

\* flatten(seq): for every position the enumeration reaches, splice the list
\* found there into its place until a number is found there; an empty list
\* spliced into the last place leaves nothing to look at: IndexError
RECURSIVE FlattenFrom(_, _, _)
FlattenFrom(s, i, entered) ==
    IF i > Len(s) THEN (IF entered THEN Raise("IndexError") ELSE Ok(s))
    ELSE IF IsSeq(s[i])
         THEN FlattenFrom(SubSeq(s, 1, i - 1) \o s[i].seq \o SubSeq(s, i + 1, Len(s)), i, TRUE)
         ELSE FlattenFrom(s, i + 1, FALSE)

Flatten(seq) == FlattenFrom(seq, 1, FALSE)

\* chunks(seq, n): the consecutive slices of n elements
RECURSIVE Chunks(_, _)
Chunks(seq, n) ==
    IF seq = <<>> THEN <<>>
    ELSE <<SubSeq(seq, 1, Min({n, Len(seq)}))>> \o Chunks(SubSeq(seq, n + 1, Len(seq)), n)

\* unflatten(seq, multipliers); multipliers[0] of no multipliers is an IndexError
RECURSIVE Unflatten(_, _)
Unflatten(seq, multipliers) ==
    IF Len(multipliers) = 0 THEN Raise("IndexError")
    ELSE LET parts == Chunks(seq, multipliers[1])
         IN IF Len(multipliers) = 1
            THEN Ok([i \in 1..Len(parts) |-> List(Leaves(parts[i]))])
            ELSE Ok([i \in 1..Len(parts) |-> List(Unflatten(parts[i], Tail(multipliers)).v)])

\* the while loop of get_seq_dims: the lengths met going down the first elements
RECURSIVE FirstDims(_)
FirstDims(x) ==
    IF ~IsSeq(x) THEN <<>>
    ELSE IF x.seq = <<>> THEN <<0>>
    ELSE <<Len(x.seq)>> \o FirstDims(x.seq[1])

\* seq_has_dims(seq, dims); len() of a number is a TypeError, and all() stops at
\* the first element that is not square
RECURSIVE SeqHasDims(_, _)
RECURSIVE AllHaveDims(_, _, _)
SeqHasDims(x, dims) ==
    IF Len(dims) = 0 THEN Ok(TRUE)
    ELSE IF ~IsSeq(x) THEN Raise("TypeError")
    ELSE IF Len(x.seq) # dims[1] THEN Ok(FALSE)
    ELSE AllHaveDims(x.seq, Tail(dims), 1)

AllHaveDims(items, dims, i) ==
    IF i > Len(items) THEN Ok(TRUE)
    ELSE LET r == SeqHasDims(items[i], dims)
         IN IF ~r.ok \/ ~r.v THEN r ELSE AllHaveDims(items, dims, i + 1)

\* get_seq_dims(seq)
GetSeqDims(x) ==
    LET dims == FirstDims(x)
        square == SeqHasDims(x, dims)
    IN IF ~square.ok THEN square
       ELSE IF ~square.v THEN Raise("ValueError") ELSE Ok(dims)

RECURSIVE Reduce(_)
Reduce(x) == IF Len(x) = 1 THEN x[1] ELSE x[1] * Reduce(Tail(x))

\* product(x)
Product(x) == IF Len(x) = 0 THEN Raise("ValueError") ELSE Ok(Reduce(x))

\* dot(x, y)
Dot(x, y) ==
    IF Len(x) # Len(y) THEN Raise("ValueError")
    ELSE IF Len(x) = 0 THEN Raise("ValueError")
    ELSE Ok(Sum([i \in 1..Len(x) |-> x[i] * y[i]]))

\* get_idx_multipliers(dims), given the product: divide it by every dimension in
\* turn
RECURSIVE Multipliers(_, _)
Multipliers(multiplier, dims) ==
    IF dims = <<>> THEN Ok(<<>>)
    ELSE IF dims[1] = 0 THEN Raise("ZeroDivisionError")
    ELSE LET rest == Multipliers(multiplier \div dims[1], Tail(dims))
         IN IF ~rest.ok THEN rest ELSE Ok(<<multiplier \div dims[1]>> \o rest.v)

GetIdxMultipliers(dims) ==
    IF ~Product(dims).ok THEN Product(dims) ELSE Multipliers(Product(dims).v, dims)

\* the optional argument shape of Tensor.__init__: None, or a shape
NoShape == <<>>
Shape(dims) == <<dims>>

\* Tensor.__init__(lst, shape): flatten, take the given shape or the dimensions
\* of the nesting (its ValueError becomes TensorError), compare the count of
\* elements with the product of the shape, compute the index multipliers
TensorInit(items, shape) ==
    LET flat == Flatten(items)
        seq_dims == GetSeqDims(List(items))
        dims == IF shape # NoShape THEN Ok(shape[1])
                ELSE IF ~seq_dims.ok /\ seq_dims.err = "ValueError" THEN Raise("TensorError")
                ELSE seq_dims
    IN IF ~flat.ok THEN flat
       ELSE IF ~dims.ok THEN dims
       ELSE IF ~Product(dims.v).ok THEN Product(dims.v)
       ELSE IF Len(flat.v) # Product(dims.v).v THEN Raise("TensorError")
       ELSE IF ~GetIdxMultipliers(dims.v).ok THEN GetIdxMultipliers(dims.v)
       ELSE Ok([lst |-> Numbers(flat.v), shape |-> dims.v,
                idx_mul |-> GetIdxMultipliers(dims.v).v])

\* Tensor.order
Order(t) == Len(t.shape)

\* Tensor.m and Tensor.n: the first and the last dimension
FirstDim(t) == t.shape[1]
LastDim(t) == t.shape[Len(t.shape)]

\* Tensor.__getitem__(key): self._lst[dot(key, self._idx_mul)], with Python's
\* negative positions
GetItem(t, key) ==
    LET at == Dot(key, t.idx_mul)
    IN IF ~at.ok THEN at
       ELSE IF at.v >= Len(t.lst) \/ at.v < -Len(t.lst) THEN Raise("IndexError")
       ELSE Ok(t.lst[(IF at.v < 0 THEN at.v + Len(t.lst) ELSE at.v) + 1])

\* the tensor after a write of value at the offset at of its elements, with
\* Python's negative positions
WriteAt(t, at, value) ==
    IF ~at.ok THEN at
    ELSE IF at.v >= Len(t.lst) \/ at.v < -Len(t.lst) THEN Raise("IndexError")
    ELSE Ok([t EXCEPT !.lst[(IF at.v < 0 THEN at.v + Len(t.lst) ELSE at.v) + 1] = value])

\* SetItem taking the index multipliers in reverse
SetItemReversed(t, key, value) ==
    WriteAt(t, Dot(key, [k \in 1..Len(t.idx_mul) |-> t.idx_mul[Len(t.idx_mul) + 1 - k]]),
            value)

\* Tensor.__setitem__(key, value): self._lst[dot(key, self._idx_mul)] = value;
\* the result is the tensor after the assignment
SetItem(t, key, value) == WriteAt(t, Dot(key, t.idx_mul), value)

\* Tensor.reshape(*shape)
Reshape(t, shape) == TensorInit(Leaves(t.lst), Shape(shape))

\* Tensor._rearrange(indices, all_idx, result): the elements appended to result
RECURSIVE RearrangeRec(_, _, _)
RearrangeRec(t, indices, all_idx) ==
    LET curr_idx == indices[1]
        curr_shp == t.shape[curr_idx + 1]
        at(i) == [all_idx EXCEPT ![curr_idx + 1] = i]
        step[i \in 0..curr_shp] ==
            IF i = curr_shp THEN <<>>
            ELSE (IF Len(indices) = 1 THEN <<GetItem(t, at(i)).v>>
                  ELSE RearrangeRec(t, Tail(indices), at(i))) \o step[i + 1]
    IN step[0]

\* Rearrange taking any indices in range, all of them or not
RearrangeUnchecked(t, indices) ==
    IF Len(indices) = 0 \/ \E i \in 1..Len(indices) : indices[i] \notin 0..(Order(t) - 1)
    THEN Raise("TensorError")
    ELSE TensorInit(Leaves(RearrangeRec(t, indices, [i \in 1..Order(t) |-> 0])),
                    Shape([k \in 1..Len(indices) |-> t.shape[indices[k] + 1]]))

\* Rearrange giving the result the shape of the original
RearrangeKeepShape(t, indices) ==
    IF {indices[i] : i \in 1..Len(indices)} # 0..(Order(t) - 1) \/ Len(indices) # Order(t)
    THEN Raise("TensorError")
    ELSE TensorInit(Leaves(RearrangeRec(t, indices, [i \in 1..Order(t) |-> 0])),
                    Shape(t.shape))

\* Tensor.rearrange(*indices)
Rearrange(t, indices) ==
    IF {indices[i] : i \in 1..Len(indices)} # 0..(Order(t) - 1) \/ Len(indices) # Order(t)
    THEN Raise("TensorError")
    ELSE TensorInit(Leaves(RearrangeRec(t, indices, [i \in 1..Order(t) |-> 0])),
                    Shape([k \in 1..Len(indices) |-> t.shape[indices[k] + 1]]))

\* Tensor.T: rearrange(*reversed(range(self.order)))
Transpose(t) == Rearrange(t, [k \in 1..Order(t) |-> Order(t) - k])

\* Tensor.__eq__(other), for another Tensor: equal shapes and equal elements
\* pair by pair
TensorEq(t, u) ==
    /\ t.shape = u.shape
    /\ \A i \in 1..Min({Len(t.lst), Len(u.lst)}) : t.lst[i] = u.lst[i]

\* Tensor.__mul__ / __rmul__ (other): a scalar times every element
TensorMul(t, other) == TensorInit(Leaves([i \in 1..Len(t.lst) |-> other * t.lst[i]]), Shape(t.shape))

\* TensorAdd adding the pairs of elements there are, whatever the shapes
TensorAddZip(t, u) ==
    TensorInit(Leaves([i \in 1..Min({Len(t.lst), Len(u.lst)}) |-> t.lst[i] + u.lst[i]]),
               Shape(<<Min({Len(t.lst), Len(u.lst)})>>))

\* Tensor.__add__(other)
TensorAdd(t, u) ==
    IF t.shape # u.shape THEN Raise("TensorError")
    ELSE TensorInit(Leaves([i \in 1..Min({Len(t.lst), Len(u.lst)}) |-> t.lst[i] + u.lst[i]]),
                    Shape(t.shape))

\* Tensor.__sub__(other): self + -1 * other
TensorSub(t, u) ==
    IF ~TensorMul(u, -1).ok THEN TensorMul(u, -1) ELSE TensorAdd(t, TensorMul(u, -1).v)

\* MatmulItem summing the products of column k of the first tensor
MatmulItemTransposed(t, u, i, k) ==
    LET terms == [j \in 1..LastDim(t) |->
                     IF ~GetItem(t, <<j - 1, i>>).ok THEN GetItem(t, <<j - 1, i>>)
                     ELSE IF ~GetItem(u, <<j - 1, k>>).ok THEN GetItem(u, <<j - 1, k>>)
                     ELSE Ok(GetItem(t, <<j - 1, i>>).v * GetItem(u, <<j - 1, k>>).v)]
    IN IF ~AllOk(terms) THEN FirstError(terms)
       ELSE Ok(Sum([j \in 1..LastDim(t) |-> terms[j].v]))

\* the element (i, k) of a matrix product: sum(self[i, j] * other[j, k] for j in
\* range(self.n))
MatmulItem(t, u, i, k) ==
    LET terms == [j \in 1..LastDim(t) |->
                     IF ~GetItem(t, <<i, j - 1>>).ok THEN GetItem(t, <<i, j - 1>>)
                     ELSE IF ~GetItem(u, <<j - 1, k>>).ok THEN GetItem(u, <<j - 1, k>>)
                     ELSE Ok(GetItem(t, <<i, j - 1>>).v * GetItem(u, <<j - 1, k>>).v)]
    IN IF ~AllOk(terms) THEN FirstError(terms)
       ELSE Ok(Sum([j \in 1..LastDim(t) |-> terms[j].v]))

\* Tensor.__matmul__(other): the nested list of the sums, rows by self.m and
\* columns by other.n, made a Tensor of the dimensions of its nesting
Matmul(t, u) ==
    IF LastDim(t) # FirstDim(u) THEN Raise("TensorError")
    ELSE LET cells == [c \in 1..(FirstDim(t) * LastDim(u)) |->
                          MatmulItem(t, u, (c - 1) \div LastDim(u), (c - 1) % LastDim(u))]
         IN IF ~AllOk(cells) THEN FirstError(cells)
            ELSE TensorInit([i \in 1..FirstDim(t) |->
                                List([k \in 1..LastDim(u) |->
                                         Leaf(cells[(i - 1) * LastDim(u) + k].v)])],
                            NoShape)

\* Tensor.tolist(): unflatten(self._lst, self._idx_mul[:-1])
Tolist(t) == Unflatten(t.lst, SubSeq(t.idx_mul, 1, Len(t.idx_mul) - 1))

(***************************************************************************)
(* Specification of the tensors: a Tensor is constructed from a nested     *)
(* sequence, with a shape or without, and a method is called on a tensor   *)
(* constructed without one; the nested list that tolist                    *)
(* returns can be made a Tensor again, and the transpose can be multiplied *)
(* with @.  last holds the call, the tensor it was made on, its arguments, *)
(* its outcome and, as prev, the call before, the tensor that one was made *)
(* on and the call it came after.                                          *)
(***************************************************************************)
\* the shapes: up to MaxOrder dimensions of 1..MaxDim each
Shapes == UNION {[1..k -> 1..MaxDim] : k \in 1..MaxOrder}

RECURSIVE Iota(_)
Iota(n) == IF n = 0 THEN <<>> ELSE Append(Iota(n - 1), n)

\* the elements lst as a nested sequence of the given shape
RECURSIVE NestedOf(_, _)
NestedOf(lst, shape) ==
    IF Len(shape) = 1 THEN Leaves(lst)
    ELSE LET size == Len(lst) \div shape[1]
         IN [i \in 1..shape[1] |->
                List(NestedOf(SubSeq(lst, (i - 1) * size + 1, i * size), Tail(shape)))]

\* the matrices A and B of tests/test_linalg.py
FixtureA == NestedOf(Iota(12), <<3, 4>>)
FixtureB == NestedOf(Iota(6), <<3, 2>>)

\* lists of up to MaxDim elements of S
ListsOver(S) == UNION {[1..k -> S] : k \in 0..MaxDim}

\* the nested sequences a Tensor is constructed from: numbers and lists of
\* numbers in any mixture, every shape filled with 1, 2, ..., flat lists, and the
\* fixtures
RawTensors ==
    ListsOver({Leaf(1)} \cup {List(l) : l \in ListsOver({Leaf(1)})})
        \cup {NestedOf(Iota(Reduce(shape)), shape) : shape \in Shapes}
        \cup {Leaves(Iota(Reduce(shape))) : shape \in Shapes}
        \cup {FixtureA, FixtureB}

\* the tensors that take part in a + b, a - b and a @ b as b
OtherTensors ==
    {TensorInit(NestedOf(Iota(Reduce(shape)), shape), NoShape).v : shape \in Shapes}
        \cup {TensorInit(FixtureB, NoShape).v}

\* the arguments of rearrange tried on a tensor of the given order
IndexTuples(order) ==
    [1..order -> (-1)..order]
        \cup [1..(order - 1) -> 0..(order - 1)]
        \cup {Append(indices, 0) : indices \in [1..order -> 0..(order - 1)]}

\* last is a call that returned a Tensor
HoldsTensor(r) ==
    /\ r.op \in {"init", "rearrange", "T", "reshape", "add", "sub", "matmul"}
    /\ r.out.ok

\* r is the construction of a Tensor from one of the nested sequences alone,
\* its shape taken from the nesting
Constructed(r) == r.op = "init" /\ r.prev.op = "none" /\ r.arg[2] = NoShape

CanCall == HoldsTensor(last) /\ Constructed(last)

Call(op, arg, out) ==
    /\ last' = [op |-> op, self |-> IF HoldsTensor(last) THEN <<last.out.v>> ELSE <<>>,
                arg |-> arg, out |-> out, prev |-> [op |-> last.op,
                          self |-> IF last.op = "none" THEN <<>> ELSE last.self,
                          after |-> IF last.op = "none" THEN "none" ELSE last.prev.op]]
    /\ UNCHANGED <<nodes, values, deltas>>

\* Tensor(items, shape) of one of the nested sequences
TensorCall(items, shape) ==
    /\ last.op = "none"
    /\ Call("init", <<items, shape>>, TensorInit(items, shape))

\* Tensor(lst, shape) of the nested list that tolist returned
TensorOfList(shape) ==
    /\ last.op = "tolist"
    /\ last.out.ok
    /\ Call("init", <<last.out.v, shape>>, TensorInit(last.out.v, shape))

RearrangeCall(indices) ==
    /\ CanCall
    /\ Call("rearrange", indices, Rearrange(last.out.v, indices))

TransposeCall ==
    /\ CanCall
    /\ Call("T", <<>>, Transpose(last.out.v))

ReshapeCall(shape) ==
    /\ CanCall
    /\ Call("reshape", shape, Reshape(last.out.v, shape))

TolistCall ==
    /\ CanCall
    /\ Call("tolist", <<>>, Tolist(last.out.v))

AddCall(other) ==
    /\ CanCall
    /\ Call("add", other, TensorAdd(last.out.v, other))

SubCall(other) ==
    /\ CanCall
    /\ Call("sub", other, TensorSub(last.out.v, other))

\* a @ b on a constructed tensor or, as in test_matmul, on the transpose of one
MatmulCall(other) ==
    /\ HoldsTensor(last)
    /\ Constructed(last) \/ (last.op = "T" /\ last.prev.op = "init" /\ last.prev.after = "none")
    /\ Call("matmul", other, Matmul(last.out.v, other))

\* the keys of t[key] tried on a tensor of the given order: every index in
\* range for some dimension, or one past the largest
Keys(order) == [1..order -> 0..MaxDim]

\* the numbers written with t[key] = value
NewValues == {0, -1}

GetItemCall(key) ==
    /\ CanCall
    /\ Call("getitem", key, GetItem(last.out.v, key))

SetItemCall(key, value) ==
    /\ CanCall
    /\ Call("setitem", <<key, value>>, SetItem(last.out.v, key, value))

OptionalShapes == {Shape(dims) : dims \in Shapes} \cup {NoShape}

NextTensor ==
    \/ /\ last.op = "none"
       /\ \E items \in RawTensors, shape \in OptionalShapes : TensorCall(items, shape)
    \/ \E shape \in OptionalShapes : TensorOfList(shape)
    \/ /\ CanCall
       /\ \E indices \in IndexTuples(Order(last.out.v)) : RearrangeCall(indices)
    \/ TransposeCall
    \/ \E shape \in Shapes : ReshapeCall(shape)
    \/ TolistCall
    \/ \E other \in OtherTensors : AddCall(other)
    \/ \E other \in OtherTensors : SubCall(other)
    \/ \E other \in OtherTensors : MatmulCall(other)
    \/ /\ CanCall
       /\ \E key \in Keys(Order(last.out.v)) : GetItemCall(key)
    \/ /\ CanCall
       /\ \E key \in Keys(Order(last.out.v)), value \in NewValues : SetItemCall(key, value)

SpecTensor == Init /\ [][NextTensor]_vars

(***************************************************************************)
(* Properties.                                                             *)
(***************************************************************************)
Operands(m) == {nodes[m].inputs[i] : i \in 1..Len(nodes[m].inputs)}
Consumers(n) == {nodes[n].outputs[j] : j \in 1..Len(nodes[n].outputs)}
Compound(n) == ~IsVar(n)
Sinks == {n \in NodeIds : nodes[n].outputs = <<>>}

\* the nodes n depends on, n included
RECURSIVE Reach(_)
Reach(n) == {n} \cup UNION {Reach(i) : i \in Operands(n)}

\* C1: n is an operand of m exactly when m is recorded as a consumer of n, and n
\* records m once per operand position that n holds in m: constructions add
\* these entries and no operation adds or removes another.
C1_BothWays ==
    \A m \in NodeIds, n \in NodeIds :
        /\ n \in Operands(m) <=> m \in Consumers(n)
        /\ Count(nodes[n].outputs, m) = Count(nodes[m].inputs, n)

\* a node has just been built from two different operands
C1_Witness ==
    /\ last.op = "init"
    /\ Len(nodes[last.node].inputs) = 2
    /\ nodes[last.node].inputs[1] # nodes[last.node].inputs[2]
    /\ \A n \in Operands(last.node) : last.node \in Consumers(n)

\* the graph shape of C2: Id, Add, Sub and Mul over variables, one node without
\* consumers, and no node using the same operand in two positions
C2Graph ==
    /\ Cardinality(Sinks) = 1
    /\ \A n \in Sinks : Compound(n)
    /\ \A n \in NodeIds : Cardinality(Operands(n)) = Len(nodes[n].inputs)

\* env binds every variable of the graph and seeds the adjoint of the output
C2Seeded(env) ==
    /\ UsedNames \subseteq DOMAIN env
    /\ \A n \in Sinks : nodes[n].name \in DOMAIN env /\ env[nodes[n].name] = 1

\* the adjoint of a variable x: the sum of what its consumers' back() returns
\* for it
VarAdjoint(x, env) ==
    LET outs == nodes[x].outputs
    IN Sum([j \in 1..Len(outs) |->
               Back(outs[j], env).res[Index(nodes[outs[j]].inputs, x)]])

\* the tangent of node n with the tangent of variable x seeded to 1 and the
\* tangent of every other variable to 0
Tangent(n, x, env) ==
    Fwd(n, [k \in UsedNames |->
               Tup(<<env[k], IF k = nodes[x].name THEN 1 ELSE 0>>)]).val.dv

\* C2: on such a graph, once reverse mode has run with the output adjoint seeded
\* to 1, the adjoint of every variable equals the forward-mode tangent of the
\* output with that variable's tangent seeded to 1 and the others to 0.
C2_ModesAgree ==
    (last.op = "back" /\ last.out.ok /\ C2Graph /\ C2Seeded(last.env)) =>
        \A x \in NodeIds :
            (IsVar(x) /\ x \in Operands(last.node)) =>
                \A out \in Sinks : VarAdjoint(x, last.env) = Tangent(out, x, last.env)

\* C3: eval of a compound node leaves its value in the workspace's value map, and
\* a second equal call returns the same value without applying any elementary
\* function again.
C3_EvalMemoized ==
    (last.op = "eval" /\ Compound(last.node) /\ last.out.ok) =>
        /\ last.node \in DOMAIN values
        /\ values[last.node] = last.out.v
        /\ last.again => (last.out.v = last.first.v /\ last.out.fcalls = 0)

\* C4: evaluating a Var (eval, or fwd for its value) whose name is bound returns
\* exactly the bound number; with its name not bound it raises VarError and
\* returns nothing.
C4_VarEval ==
    /\ (last.op = "eval" /\ IsVar(last.node)) =>
          IF nodes[last.node].name \in DOMAIN last.env
          THEN last.out.ok /\ last.out.v = last.env[nodes[last.node].name]
          ELSE ~last.out.ok /\ last.out.err = "VarError"
    /\ (last.op = "fwd" /\ IsVar(last.node)) =>
          IF nodes[last.node].name \in DOMAIN last.env
          THEN last.out.ok /\ last.out.val.v = ToEnv(last.env)[nodes[last.node].name]
          ELSE ~last.out.ok /\ last.out.err = "VarError"

\* a Var was evaluated with bindings for another name only, and it raised
C4_Witness ==
    /\ last.op = "eval"
    /\ IsVar(last.node)
    /\ DOMAIN last.env # {}
    /\ nodes[last.node].name \notin DOMAIN last.env
    /\ ~last.out.ok

\* the operand positions that hold n: pairs <<consumer, position>>
Edges(n) ==
    {e \in NodeIds \X (1..2) : e[2] <= Len(nodes[e[1]].inputs) /\ nodes[e[1]].inputs[e[2]] = n}

\* the sum over a set of edges of the consumer's contribution through the edge
RECURSIVE EdgeSum(_, _)
EdgeSum(E, env) ==
    IF E = {} THEN 0
    ELSE LET e == CHOOSE e \in E : TRUE
         IN Back(e[1], env).res[e[2]] + EdgeSum(E \ {e}, env)

\* C5: the adjoint that back() forms for a node with several consumers has one
\* summand per registered consumer and is the sum of each consumer's
\* contribution through its edge.
C5_SumOverConsumers ==
    (last.op = "back" /\ last.out.ok /\ Len(nodes[last.node].outputs) >= 2) =>
        /\ Len(last.out.vo_bars) = Cardinality(Edges(last.node))
        /\ Sum(last.out.vo_bars) = EdgeSum(Edges(last.node), last.env)

\* what back() returns when the adjoint of node n is the number seed
Distributed(n, env, seed) ==
    IF nodes[n].kind = "Id" THEN <<seed>>
    ELSE DI(nodes[n].kind,
            [i \in 1..Len(nodes[n].inputs) |-> Eval(nodes[n].inputs[i], env).v],
            <<seed>>)

\* C6: back() on a node without consumers, whatever its variant, takes the seeded
\* delta of that node as its adjoint, and raises when none was seeded.
C6_SinkUsesSeed ==
    (last.op = "back" /\ Compound(last.node) /\ last.node \in Sinks
       /\ UsedNames \subseteq DOMAIN last.env) =>
        IF nodes[last.node].name \in DOMAIN last.env
        THEN /\ last.out.ok
             /\ last.out.res = Distributed(last.node, last.env,
                                           last.env[nodes[last.node].name])
        ELSE ~last.out.ok

\* the float f lies within half * 2^f.e of p / q, for integers p and q # 0 and
\* a natural number `half`: |2 * m * |q| - |p| * 2^(1 - e)| <= half * |q|
Within(f, p, q, half) ==
    IF p = 0 THEN f.s = 0
    ELSE /\ f.s = Sign(p) * Sign(q)
         /\ Len(f.m) = (Precision - 1) \div BaseBits + 1
         /\ f.m[Len(f.m)] = 1
         /\ f.e <= 0
         /\ Cmp(Diff(MulAdd(f.m, 2 * Abs(q), 0), ShiftLeft(DigitsOf(Abs(p)), 1 - f.e)),
                DigitsOf(half * Abs(q))) <= 0

\* the float f is p / q rounded to a nearest double
IsQuotient(f, p, q) == Within(f, p, q, 1)

OneHot(kind, x, y, k, v) ==
    IF kind = "Id" THEN ApplyDf(kind, x, y, v, 0)
    ELSE ApplyDf(kind, x, y, IF k = 1 THEN v ELSE 0, IF k = 2 THEN v ELSE 0)

\* C8 as claimed: for Id, Add, Sub, Mul and Div (nonzero divisor), component k of
\* di is df with the adjoint in tangent slot k and 0 in every other tangent slot.
C8_DiIsOneHotDf ==
    (last.op = "di" /\ (last.kind = "Div" => last.y # 0)) =>
        /\ last.out.ok
        /\ Len(last.out.v) = (IF last.kind = "Id" THEN 1 ELSE 2)
        /\ \A k \in 1..Len(last.out.v) :
              last.out.v[k] = OneHot(last.kind, last.x, last.y, k, last.dx).v

\* C8 as amended: the same, except that the second component of Div.di, a
\* rounded product of the adjoint and a rounded quotient, equals the one-hot df
\* only up to that rounding: df is -x*v/y^2 rounded once, di lies within
\* (|v| + 1) / 2 units in the last place of it.
C8_DiIsOneHotDfRounded ==
    (last.op = "di" /\ (last.kind = "Div" => last.y # 0)) =>
        /\ last.out.ok
        /\ Len(last.out.v) = (IF last.kind = "Id" THEN 1 ELSE 2)
        /\ \A k \in 1..Len(last.out.v) :
              IF last.kind = "Div" /\ k = 2
              THEN /\ IsQuotient(OneHot("Div", last.x, last.y, 2, last.dx).v,
                                 -last.x * last.dx, last.y * last.y)
                   /\ Within(last.out.v[2], -last.x * last.dx, last.y * last.y,
                             Abs(last.dx) + 1)
              ELSE last.out.v[k] = OneHot(last.kind, last.x, last.y, k, last.dx).v

\* di of a Div was applied where the second component is not the one-hot df
C8_Witness ==
    /\ last.op = "di"
    /\ last.kind = "Div"
    /\ last.y # 0
    /\ last.out.v[1] = OneHot("Div", last.x, last.y, 1, last.dx).v
    /\ last.out.v[2] # OneHot("Div", last.x, last.y, 2, last.dx).v

\* the variables n depends on that the bindings leave out
Unbound(n, env) == {x \in Reach(n) : IsVar(x) /\ nodes[x].name \notin DOMAIN env}

\* C9: eval or fwd of a compound node that depends on a variable without a
\* binding raises VarError instead of returning a number, and the workspace holds
\* what it held before.
C9_ErrorPropagates ==
    (last.op \in {"eval", "fwd"} /\ Compound(last.node)
       /\ Unbound(last.node, last.env) # {}) =>
        /\ ~last.out.ok
        /\ last.out.err = "VarError"
        /\ values = <<>>
        /\ deltas = <<>>

\* eval of a binary node raised although its second operand has a value
C9_Witness ==
    /\ last.op = "eval"
    /\ Len(nodes[last.node].inputs) = 2
    /\ ~Eval(nodes[last.node].inputs[1], last.env).ok
    /\ Eval(nodes[last.node].inputs[2], last.env).ok
    /\ ~last.out.ok

\* the errors that report a failed lookup in the Session
LookupErrors == {"SessionError"}

\* C10: get_value and get_delta of a node without an entry raise the Session's
\* lookup error with a message that names the node, and change neither map.
C10_MissingEntry ==
    /\ (last.op = "get_value" /\ last.node \notin DOMAIN values) =>
          /\ ~last.out.ok
          /\ last.out.err \in LookupErrors
          /\ last.out.msg[4] = nodes[last.node].name
          /\ <<values, deltas>> = last.before
    /\ (last.op = "get_delta" /\ last.node \notin DOMAIN deltas) =>
          /\ ~last.out.ok
          /\ last.out.err \in LookupErrors
          /\ last.out.msg[4] = nodes[last.node].name
          /\ <<values, deltas>> = last.before

\* one step of the Session keeps get and has in line: has answers, and with what
\* get would do; get of a node returns the number of a set of that node made in
\* this step, and else what it returned or raised before the step
SessionStep ==
    /\ last'.op \in {"has_value", "has_delta"} => last'.out.ok
    /\ \A n \in NodeIds :
          /\ (last'.op = "has_value" /\ last'.node = n) => last'.out.v = GetValueOf(n)'.ok
          /\ (last'.op = "has_delta" /\ last'.node = n) => last'.out.v = GetDeltaOf(n)'.ok
          /\ GetValueOf(n)' = (IF last'.op = "set_value" /\ last'.node = n
                               THEN Ok(last'.arg) ELSE GetValueOf(n))
          /\ GetDeltaOf(n)' = (IF last'.op = "set_delta" /\ last'.node = n
                               THEN Ok(last'.arg) ELSE GetDeltaOf(n))

\* C11: after any sequence of Session operations has_value(n) (has_delta(n))
\* never fails and is true exactly when get_value(n) (get_delta(n)) would
\* return, and get returns the number of the most recent set for n, or the
\* pre-seeded entry when n was never set.
C11_HasMatchesGet == [][SessionStep]_vars

\* has_delta answered no for a node that holds a value, and get_delta raises
C11_Witness ==
    /\ last.op = "has_delta"
    /\ ~last.out.v
    /\ last.node \in DOMAIN values
    /\ ~GetDeltaOf(last.node).ok
    /\ GetValueOf(last.node).ok

\* a step of set_value writes the entry of its node and nothing else, and a step
\* of set_delta likewise
SetStep ==
    /\ last'.op = "set_value" =>
          /\ values' = [k \in DOMAIN values \cup {last'.node} |->
                           IF k = last'.node THEN last'.arg ELSE values[k]]
          /\ deltas' = deltas
    /\ last'.op = "set_delta" =>
          /\ deltas' = [k \in DOMAIN deltas \cup {last'.node} |->
                           IF k = last'.node THEN last'.arg ELSE deltas[k]]
          /\ values' = values

\* C12: set_value(n, x) overwrites n's value entry and changes nothing else: every
\* other value entry and the whole delta map stay; set_delta(n, x) likewise leaves
\* the value map and every other delta entry, so a node can hold a value without
\* a delta and a delta without a value.
C12_SetFrame == [][SetStep]_vars

\* set_value overwrote the entry of a node that holds no delta, next to the
\* entry of another node
C12_Witness ==
    /\ last.op = "set_value"
    /\ values[last.node] = last.arg
    /\ last.node \notin DOMAIN deltas
    /\ \E k \in DOMAIN values : k # last.node /\ values[k] # last.arg

\* the variant each operator is to construct
OperatorKind(sym) ==
    CASE sym = "+" -> "Add"
      [] sym = "-" -> "Sub"
      [] sym = "*" -> "Mul"
      [] sym = "/" -> "Div"

\* a step of a <sym> b adds one node of the operator's variant over (a, b), a
\* consumer of a and of b
OperatorStep(sym, a, b) ==
    LET new == Len(nodes) + 1
    IN /\ Len(nodes') = new
       /\ nodes'[new].kind = OperatorKind(sym)
       /\ nodes'[new].inputs = <<a, b>>
       /\ \E i \in 1..Len(nodes'[a].outputs) : nodes'[a].outputs[i] = new
       /\ \E i \in 1..Len(nodes'[b].outputs) : nodes'[b].outputs[i] = new

\* C13: for any two nodes a and b, each of a + b, a - b, a * b and a / b yields a
\* new Add, Sub, Mul or Div node whose operands are (a, b) in that order and
\* which is registered as a consumer of both a and b.
C13_OperatorsCompose ==
    [][\A sym \in Operators, a \in NodeIds, b \in NodeIds :
          Operator(sym, a, b) => OperatorStep(sym, a, b)]_vars


\* indices names every position 0..order-1 once and nothing else
IsPermutation(indices, order) ==
    /\ Len(indices) = order
    /\ \A axis \in 0..(order - 1) :
          Cardinality({k \in 1..Len(indices) : indices[k] = axis}) = 1

\* C14: rearrange(indices) returns a tensor only when indices is exactly a
\* permutation of 0..order-1; with a repeated, missing, extra or out-of-range
\* index it raises TensorError; the shape of the tensor returned is the
\* original shape permuted by indices.
C14_RearrangePermutation ==
    (last.op = "rearrange") =>
        LET t == last.self[1]
        IN IF IsPermutation(last.arg, Order(t))
           THEN last.out.ok =>
                    last.out.v.shape = [k \in 1..Order(t) |-> t.shape[last.arg[k] + 1]]
           ELSE ~last.out.ok /\ last.out.err = "TensorError"

\* rearrange was given every position of an order-3 tensor but one of them
\* twice, four indices in all, and raised
C14_Witness ==
    /\ last.op = "rearrange"
    /\ Order(last.self[1]) = 3
    /\ Len(last.arg) = 4
    /\ {last.arg[k] : k \in 1..4} = 0..2
    /\ ~last.out.ok
    /\ last.out.err = "TensorError"

\* the permutation that undoes p
Inverse(p) == [k \in 1..Len(p) |-> (CHOOSE j \in 1..Len(p) : p[j] = k - 1) - 1]

\* the largest dimension of a shape
Largest(shape) ==
    CHOOSE d \in {shape[k] : k \in 1..Len(shape)} : \A k \in 1..Len(shape) : shape[k] <= d

\* the multi-indices of a shape
MultiIndices(shape) ==
    {key \in [1..Len(shape) -> 0..(Largest(shape) - 1)] :
        \A k \in 1..Len(shape) : key[k] < shape[k]}

\* t and u have the same shape and the same element at every multi-index
SameTensor(t, u) ==
    /\ t.shape = u.shape
    /\ \A key \in MultiIndices(t.shape) : GetItem(t, key) = GetItem(u, key)
    /\ TensorEq(t, u)

\* C15: rearranging the result of rearrange(p) by the inverse of p gives the
\* original tensor back, and so does the transpose of the transpose.
C15_RearrangeInverse ==
    /\ (last.op = "rearrange" /\ last.out.ok) =>
          /\ Rearrange(last.out.v, Inverse(last.arg)).ok
          /\ SameTensor(Rearrange(last.out.v, Inverse(last.arg)).v, last.self[1])
    /\ (last.op = "T" /\ last.out.ok) =>
          /\ Transpose(last.out.v).ok
          /\ SameTensor(Transpose(last.out.v).v, last.self[1])

\* a tensor was rearranged by a permutation that is not its own inverse, and
\* the elements changed places
C15_Witness ==
    /\ last.op = "rearrange"
    /\ last.out.ok
    /\ Inverse(last.arg) # last.arg
    /\ last.out.v.lst # last.self[1].lst
    /\ Rearrange(last.out.v, Inverse(last.arg)).ok

\* the tensor made from the nested list lst with the shape of t equals t
RoundTrip(lst, t) ==
    /\ lst.ok
    /\ TensorInit(lst.v, Shape(t.shape)).ok
    /\ SameTensor(TensorInit(lst.v, Shape(t.shape)).v, t)

\* C16: reshape to a shape with the element count of the tensor, of any order,
\* returns a tensor with the elements in the same row-major order, whose
\* tolist() is a nested list from which the original shape gives the original
\* tensor back; with another element count reshape raises TensorError.
C16_ReshapeRoundTrip ==
    (last.op = "reshape") =>
        IF Reduce(last.arg) = Len(last.self[1].lst)
        THEN /\ last.out.ok
             /\ last.out.v.shape = last.arg
             /\ last.out.v.lst = last.self[1].lst
             /\ RoundTrip(Tolist(last.out.v), last.self[1])
        ELSE ~last.out.ok /\ last.out.err = "TensorError"

\* the same for the shapes of order 2 and more
C16_ReshapeRoundTripOrder2 ==
    (last.op = "reshape" /\ Len(last.arg) >= 2) => C16_ReshapeRoundTrip

\* C17: a + b and a - b raise TensorError whenever the shapes of a and b
\* differ, and a @ b raises TensorError whenever the last dimension of a
\* differs from the first dimension of b; no tensor is returned then.
C17_ShapeMismatchRaises ==
    /\ (last.op \in {"add", "sub"} /\ last.self[1].shape # last.arg.shape) =>
          ~last.out.ok /\ last.out.err = "TensorError"
    /\ (last.op = "matmul" /\ LastDim(last.self[1]) # FirstDim(last.arg)) =>
          ~last.out.ok /\ last.out.err = "TensorError"

\* b was subtracted from a tensor of another shape with as many elements, and
\* the subtraction raised
C17_Witness ==
    /\ last.op = "sub"
    /\ last.self[1].shape # last.arg.shape
    /\ Len(last.self[1].lst) = Len(last.arg.lst)
    /\ ~last.out.ok
    /\ last.out.err = "TensorError"

\* the lengths of x level by level, going down its first elements
RECURSIVE LevelLengths(_)
LevelLengths(x) ==
    IF ~IsSeq(x) THEN <<>>
    ELSE IF x.seq = <<>> THEN <<0>>
    ELSE <<Len(x.seq)>> \o LevelLengths(x.seq[1])

\* no two siblings of x, at any depth, differ in length or in being sequences
RECURSIVE Rectangular(_)
Rectangular(x) ==
    IsSeq(x) =>
        /\ \A i \in 1..Len(x.seq) : Rectangular(x.seq[i])
        /\ \A i \in 1..Len(x.seq), j \in 1..Len(x.seq) :
              /\ IsSeq(x.seq[i]) = IsSeq(x.seq[j])
              /\ LevelLengths(x.seq[i]) = LevelLengths(x.seq[j])

\* the number of numbers in x
RECURSIVE CountLeaves(_)
CountLeaves(x) ==
    IF ~IsSeq(x) THEN 1
    ELSE Sum([i \in 1..Len(x.seq) |-> CountLeaves(x.seq[i])])

\* C18: Tensor(lst) without a shape raises TensorError whenever lst is not
\* rectangular; when it returns, the shape is the tuple of the lengths level by
\* level and the number of elements is the product of the shape.
C18_NonRectangularRaises ==
    (last.op = "init" /\ last.prev.op = "none" /\ last.arg[2] = NoShape) =>
        IF ~Rectangular(List(last.arg[1]))
        THEN ~last.out.ok /\ last.out.err = "TensorError"
        ELSE last.out.ok =>
                /\ last.out.v.shape = LevelLengths(List(last.arg[1]))
                /\ Len(last.out.v.lst) = Reduce(last.out.v.shape)
                /\ Len(last.out.v.lst) = CountLeaves(List(last.arg[1]))

\* the part of C18 about the constructions that return, for rectangular lst
C18_RectangularShape ==
    (last.op = "init" /\ last.prev.op = "none" /\ last.arg[2] = NoShape
       /\ Rectangular(List(last.arg[1]))) => C18_NonRectangularRaises

\* the element (i, k), counted from 0, of a matrix in row-major order
Entry(t, i, k) == t.lst[i * t.shape[2] + k + 1]

\* a is the transpose of the matrix A and b is the matrix B of test_matmul
TestInstance ==
    /\ last.op = "matmul"
    /\ last.prev.op = "T"
    /\ last.prev.self[1] = TensorInit(FixtureA, NoShape).v
    /\ last.arg = TensorInit(FixtureB, NoShape).v

\* C19: for an m-by-n tensor a and an n-by-p tensor b, a @ b is the m-by-p
\* tensor whose element (i, k) is the sum over j of a[i, j] * b[j, k]; the
\* transpose of A times B is [[61, 76], [70, 88], [79, 100], [88, 112]].
C19_MatmulElements ==
    /\ (last.op = "matmul" /\ Order(last.self[1]) = 2 /\ Order(last.arg) = 2
          /\ last.self[1].shape[2] = last.arg.shape[1]) =>
          LET a == last.self[1]
              b == last.arg
          IN /\ last.out.ok
             /\ last.out.v.shape = <<a.shape[1], b.shape[2]>>
             /\ \A i \in 0..(a.shape[1] - 1), k \in 0..(b.shape[2] - 1) :
                   Entry(last.out.v, i, k) =
                       Sum([j \in 1..a.shape[2] |-> Entry(a, i, j - 1) * Entry(b, j - 1, k)])
    /\ TestInstance =>
          /\ last.out.ok
          /\ Tolist(last.out.v) =
                 Ok(NestedOf(<<61, 76, 70, 88, 79, 100, 88, 112>>, <<4, 2>>))

\* the transpose of A was multiplied with B and a 4-by-2 tensor came back
C19_Witness ==
    /\ TestInstance
    /\ last.out.ok
    /\ last.out.v.shape = <<4, 2>>

\* the position of the k-th occurrence of x in seq
KthIndex(seq, x, k) ==
    CHOOSE i \in 1..Len(seq) : seq[i] = x /\ Count(SubSeq(seq, 1, i), x) = k

\* the contribution to the adjoint of v that belongs to entry j of its outputs:
\* that consumer's back() at the position of v that the entry was appended for
OwnContribution(v, j, env) ==
    LET outs == nodes[v].outputs
    IN Back(outs[j], env).res[KthIndex(nodes[outs[j]].inputs, v,
                                       Count(SubSeq(outs, 1, j), outs[j]))]

\* the derivative of node n with respect to node v, by the forward rules
RECURSIVE DerivativeWrt(_, _, _)
DerivativeWrt(n, v, env) ==
    IF n = v THEN 1
    ELSE IF IsVar(n) THEN 0
    ELSE DF(nodes[n].kind,
            [i \in 1..Len(nodes[n].inputs) |-> Eval(nodes[n].inputs[i], env).v],
            [i \in 1..Len(nodes[n].inputs) |-> DerivativeWrt(nodes[n].inputs[i], v, env)])

\* some consumer of v has v in more than one operand position
RepeatedOperand(v) == \E c \in Consumers(v) : Count(nodes[c].inputs, v) >= 2

\* one output, an Id whose adjoint env seeds to 1, and env binds every variable
SeededOutput(env) ==
    /\ Cardinality(Sinks) = 1
    /\ \A n \in Sinks : nodes[n].kind = "Id"
    /\ C2Seeded(env)

\* C20: when v holds more than one operand position of a consumer, back() adds
\* to the adjoint of v one contribution per position, each the consumer's
\* contribution for that position, so that the adjoint of v is the derivative
\* of the output with respect to v.
C20_RepeatedOperand ==
    (last.op = "back" /\ last.out.ok /\ RepeatedOperand(last.node)
       /\ SeededOutput(last.env)) =>
        /\ \A j \in 1..Len(last.out.vo_bars) :
              last.out.vo_bars[j] = OwnContribution(last.node, j, last.env)
        /\ \A out \in Sinks :
              Sum(last.out.vo_bars) = DerivativeWrt(out, last.node, last.env)

\* the same for the consumers Mul(v, v), whose two positions contribute alike
C20_RepeatedOperandOfMul ==
    (last.op = "back" /\ \A c \in Consumers(last.node) : nodes[c].kind = "Mul") =>
        \A out \in Sinks :
            (last.out.ok /\ RepeatedOperand(last.node) /\ SeededOutput(last.env)) =>
                Sum(last.out.vo_bars) = DerivativeWrt(out, last.node, last.env)

\* the nodes reached from the nodes of S by k steps to an operand
RECURSIVE Descend(_, _)
Descend(S, k) ==
    IF k = 0 THEN S ELSE Descend(UNION {Operands(n) : n \in S}, k - 1)

\* the nodes reached from the nodes of S by k steps to a consumer
RECURSIVE Ascend(_, _)
Ascend(S, k) ==
    IF k = 0 THEN S ELSE Ascend(UNION {Consumers(n) : n \in S}, k - 1)

\* no walk from operand to operand, or from consumer to consumer, is as long as
\* the number of nodes: the recursion of eval and _fwd through inputs and of
\* back through outputs ends after at most that many nested calls
Acyclic ==
    \A n \in NodeIds :
        /\ Descend({n}, Len(nodes)) = {}
        /\ Ascend({n}, Len(nodes)) = {}

\* a step keeps every node and its operands, and the operands of a node it
\* constructs are nodes that existed before
OperandsFixed ==
    /\ Len(nodes') >= Len(nodes)
    /\ \A n \in NodeIds : nodes'[n].inputs = nodes[n].inputs
    /\ \A m \in (Len(nodes) + 1)..Len(nodes') :
          \A i \in 1..Len(nodes'[m].inputs) : nodes'[m].inputs[i] \in NodeIds

\* C21: the operands of a node exist when it is constructed and are never
\* reassigned, so every graph that constructions reach is acyclic and the
\* recursion of eval, fwd and back on it is bounded by the number of nodes.
C21_AcyclicAndFixed == []Acyclic /\ [][OperandsFixed]_vars

\* eval returned for a node at the end of a chain of two compound nodes
C21_Witness ==
    /\ last.op = "eval"
    /\ last.out.ok
    /\ Descend({last.node}, 2) # {}
    /\ Ascend(Descend({last.node}, 2), 2) = {last.node}

\* the names of the variables that n depends on
VarsOf(n) == {nodes[v].name : v \in {m \in Reach(n) : IsVar(m)}}

\* C22: with every variable of n bound to a bare number or to a (value,
\* tangent) pair, n.fwd returns a Val whose value component is what n.eval
\* returns on the value components of the same bindings.
C22_FwdValueIsEval ==
    (last.op = "fwd" /\ VarsOf(last.node) \subseteq DOMAIN last.env) =>
        /\ last.out.ok
        /\ Eval(last.node, ToEnv(last.env)).ok
        /\ last.out.val.v = Eval(last.node, ToEnv(last.env)).v

\* fwd returned for a node over two variables, one bound to a pair and the
\* other to a bare number
C22_Witness ==
    /\ last.op = "fwd"
    /\ last.out.ok
    /\ Compound(last.node)
    /\ Cardinality(VarsOf(last.node)) = 2
    /\ \E j \in VarsOf(last.node), k \in VarsOf(last.node) :
          last.env[j].tag = "tuple" /\ last.env[k].tag = "num"

\* key is a multi-index in range for the shape
InRange(key, shape) ==
    /\ Len(key) = Len(shape)
    /\ \A k \in 1..Len(key) : key[k] >= 0 /\ key[k] < shape[k]

\* the place of an in-range multi-index in row-major order, counted from 0
RECURSIVE RowMajor(_, _)
RowMajor(key, shape) ==
    IF Len(key) = 0 THEN 0
    ELSE RowMajor(SubSeq(key, 1, Len(key) - 1), SubSeq(shape, 1, Len(shape) - 1))
             * shape[Len(shape)] + key[Len(key)]

\* the offsets of the in-range multi-indices of t are their row-major places,
\* and they are exactly 0..d1*...*dk-1, each once
OffsetsRowMajor(t) ==
    /\ \A key \in MultiIndices(t.shape) :
          Dot(key, t.idx_mul) = Ok(RowMajor(key, t.shape))
    /\ {Dot(key, t.idx_mul).v : key \in MultiIndices(t.shape)} = 0..(Reduce(t.shape) - 1)
    /\ Cardinality(MultiIndices(t.shape)) = Reduce(t.shape)

\* C23: the offset dot(index, index multipliers) maps the in-range
\* multi-indices one-to-one onto 0..d1*...*dk-1 in row-major order; after
\* t[i] = v, t[i] is v and every other in-range t[j] is what it was.
C23_SetThenGet ==
    /\ (last.op \in {"getitem", "setitem"}) => OffsetsRowMajor(last.self[1])
    /\ (last.op = "getitem" /\ InRange(last.arg, last.self[1].shape)) =>
          last.out = Ok(last.self[1].lst[RowMajor(last.arg, last.self[1].shape) + 1])
    /\ (last.op = "setitem" /\ InRange(last.arg[1], last.self[1].shape)) =>
          /\ last.out.ok
          /\ last.out.v.shape = last.self[1].shape
          /\ GetItem(last.out.v, last.arg[1]) = Ok(last.arg[2])
          /\ \A j \in MultiIndices(last.self[1].shape) :
                j # last.arg[1] => GetItem(last.out.v, j) = GetItem(last.self[1], j)

\* an element of a tensor of order 3 that is neither its first nor its last was
\* overwritten with a number it did not hold
C23_Witness ==
    /\ last.op = "setitem"
    /\ Order(last.self[1]) = 3
    /\ InRange(last.arg[1], last.self[1].shape)
    /\ RowMajor(last.arg[1], last.self[1].shape) \in 1..(Len(last.self[1].lst) - 2)
    /\ last.out.ok
    /\ last.out.v.lst # last.self[1].lst

====
